---- MODULE Spec2Model ----
(***************************************************************************)
(* A model of piston/doc.py: the reflection-based documentation of piston  *)
(* handlers.  The module is a set of functions over handler classes, so    *)
(* the state is the call in progress: which operation was invoked (op), on *)
(* which arguments (input) and what it returned or raised (ret).  A call     *)
(* starts from the idle state and every behaviour is one call.             *)
(***************************************************************************)
EXTENDS Integers, Sequences, FiniteSets, TLC

VARIABLES op, input, ret

vars == <<op, input, ret>>

(***************************************************************************)
(* Python values and outcomes.                                             *)
(***************************************************************************)
PyNone == [t |-> "NoneType"]
PyStr(s) == [t |-> "str", v |-> s]
PyInt(i) == [t |-> "int", v |-> i]

Return(v) == [kind |-> "return", value |-> v]
Raise(e) == [kind |-> "raise", exc |-> e]

\* bool(x) of a Python value
Truthy(x) ==
    CASE x.t = "NoneType" -> FALSE
      [] x.t = "str" -> x.v # ""
      [] x.t = "int" -> x.v # 0
      [] x.t \in {"tuple", "list"} -> x.v # <<>>
      [] x.t = "dict" -> DOMAIN x.v # {}
      [] OTHER -> TRUE

\* str(x) of a Python value
RECURSIVE Digits(_)
Digits(n) ==
    IF n < 10 THEN SubSeq("0123456789", n + 1, n + 1)
    ELSE Digits(n \div 10) \o SubSeq("0123456789", (n % 10) + 1, (n % 10) + 1)

str(x) ==
    CASE x.t = "NoneType" -> "None"
      [] x.t = "str" -> x.v
      [] x.t = "int" -> IF x.v < 0 THEN "-" \o Digits(0 - x.v) ELSE Digits(x.v)

(***************************************************************************)
(* generate_doc                                                            *)
(***************************************************************************)
HandlerClasses == {"BaseHandler", "FooHandler", "AnonymousFooHandler", "SubHandler"}

\* type(c) of a class object c, by name
TypeOf(c) ==
    CASE c \in {"BaseHandler", "FooHandler", "AnonymousFooHandler"} -> "HandlerMetaClass"
      [] c = "SubHandler" -> "SubMeta"
      [] OTHER -> "type"

\* the classes a class derives from, itself included
Mro(c) ==
    CASE c \in {"BaseHandler", "FooHandler", "AnonymousFooHandler", "SubHandler"} ->
            {c, "BaseHandler", "object"}
      [] c = "SubMeta" -> {"SubMeta", "HandlerMetaClass", "type", "object"}
      [] c = "HandlerMetaClass" -> {"HandlerMetaClass", "type", "object"}
      [] OTHER -> {c, "object"}

\* isinstance(o, cls) for an object o whose class is named o_type
isinstance(o_type, cls) == cls \in Mro(o_type)

\* The values generate_doc may be handed: each carries the name of its class.
Objects ==
    {[name |-> c, type |-> TypeOf(c)] : c \in HandlerClasses}
    \cup {[name |-> "FooHandler()", type |-> "FooHandler"],
          [name |-> "AnonymousFooHandler()", type |-> "AnonymousFooHandler"],
          [name |-> "SubHandler()", type |-> "SubHandler"],
          [name |-> "HandlerDocumentation(FooHandler)", type |-> "HandlerDocumentation"],
          [name |-> "HandlerDocumentation", type |-> "type"],
          [name |-> "HandlerMetaClass", type |-> "type"],
          [name |-> "5", type |-> "int"],
          [name |-> "'FooHandler'", type |-> "str"],
          [name |-> "None", type |-> "NoneType"],
          [name |-> "object()", type |-> "object"]}

HandlerDocumentation(handler) == [t |-> "HandlerDocumentation", handler |-> handler]

generate_doc(handler_cls) ==
    IF isinstance(TypeOf(handler_cls.type), "HandlerMetaClass")
    THEN Raise("ValueError")
    ELSE Return(HandlerDocumentation(handler_cls))

GenerateDoc ==
    /\ op = "idle"
    /\ \E x \in Objects :
        /\ op' = "generate_doc"
        /\ input' = x
        /\ ret' = generate_doc(x)


(***************************************************************************)
(* HandlerDocumentation.get_methods                                        *)
(***************************************************************************)
\* piston.utils.get_http_name: the wire-level name of a canonical operation
get_http_name(m) ==
    CASE m = "read" -> "GET"
      [] m = "create" -> "POST"
      [] m = "update" -> "PUT"
      [] m = "delete" -> "DELETE"

HttpMethods == {"GET", "POST", "PUT", "DELETE"}

methods == <<"read", "create", "update", "delete">>

\* The module a documented handler is defined in, and the modules an
\* inherited implementation can come from.
HandlerModule == "api.handlers"
BaseModules == {"api.handlers", "piston.handler"}

\* What getattr(handler, method, None) finds: nothing, a method the handler
\* declares itself (its function lives in the handler's module), or one it
\* inherits from a base class, whose function lives in the base's module.
\* A function bound by "def <name>" in a class body carries that name.
Implementations(m) ==
    {PyNone,
     [t |-> "method", name |-> m, module |-> HandlerModule, inherited |-> FALSE]}
    \cup {[t |-> "method", name |-> m, module |-> b, inherited |-> TRUE] :
            b \in BaseModules}

MethodHandlers ==
    {[module |-> HandlerModule, is_anonymous |-> a, allowed_methods |-> w,
      read |-> r, create |-> c, update |-> u, delete |-> d] :
        a \in BOOLEAN, w \in SUBSET HttpMethods,
        r \in Implementations("read"), c \in Implementations("create"),
        u \in Implementations("update"), d \in Implementations("delete")}

\* getattr(self.handler, method, None)
getattr_method(handler, method) ==
    CASE method = "read" -> handler.read
      [] method = "create" -> handler.create
      [] method = "update" -> handler.update
      [] method = "delete" -> handler.delete

HandlerMethod(method, stale) == [method |-> method, stale |-> stale]

\* the whitelist filter left out
candidate_methods_unfiltered(handler, available_only) == methods

\* line 82-86: the candidate names, filtered by the whitelist on request
candidate_methods(handler, available_only) ==
    IF available_only
    THEN SelectSeq(methods, LAMBDA m : get_http_name(m) \in handler.allowed_methods)
    ELSE methods

\* staleness taken as "not declared on the handler itself"
stale_of_inherited(met, handler) == met.inherited

\* line 94: the implementation's module is not the handler's module
stale_of(met, handler) == met.module # handler.module

\* line 97: the non-anonymous handler's condition
yield_named(met, stale, include_default) ==
    Truthy(met) /\ (~stale \/ include_default)

\* the condition with "or" binding tighter than "and"
yield_anonymous_or_first(met, stale, handler) ==
    (~stale \/ met.name = "read") /\ "GET" \in handler.allowed_methods

\* line 100-101: the anonymous handler's condition ("and" binds tighter)
yield_anonymous(met, stale, handler) ==
    ~stale \/ (met.name = "read" /\ "GET" \in handler.allowed_methods)

\* the body of the loop of lines 88-103 for one method name
get_methods_step(handler, method, include_default) ==
    LET met == getattr_method(handler, method) IN
    IF ~Truthy(met) THEN <<>>
    ELSE LET stale == stale_of(met, handler) IN
         IF ~handler.is_anonymous
         THEN IF yield_named(met, stale, include_default)
              THEN <<HandlerMethod(met, stale)>> ELSE <<>>
         ELSE IF yield_anonymous(met, stale, handler)
              THEN <<HandlerMethod(met, stale)>> ELSE <<>>

RECURSIVE get_methods_loop(_, _, _)
get_methods_loop(handler, names, include_default) ==
    IF names = <<>> THEN <<>>
    ELSE get_methods_step(handler, Head(names), include_default)
         \o get_methods_loop(handler, Tail(names), include_default)

get_methods(handler, include_default, available_only) ==
    get_methods_loop(handler, candidate_methods(handler, available_only),
                     include_default)

GetMethods ==
    /\ op = "idle"
    /\ \E h \in MethodHandlers, include_default \in BOOLEAN, available_only \in BOOLEAN :
        /\ op' = "get_methods"
        /\ input' = [handler |-> h, include_default |-> include_default,
                   available_only |-> available_only]
        /\ ret' = Return(get_methods(h, include_default, available_only))


(***************************************************************************)
(* HandlerMethod.iter_args and HandlerMethod.signature                     *)
(***************************************************************************)
MaxArgs == 3
MaxDefaults == 2

ArgNames == {"self", "request", "form", "id", "slug"}
ReservedArgs == {"self", "request", "form"}

DefaultValues ==
    {PyNone, PyInt(0), PyStr(""), PyStr("Nonexistent"), PyStr("a,")}

Min(a, b) == IF a < b THEN a ELSE b

IsInjective(q) == \A i, j \in 1..Len(q) : q[i] = q[j] => i = j

\* What inspect.getargspec reports of a method: its parameter names (no
\* name twice) and the defaults of the last Len(defaults) of them.
ArgSpecs ==
    UNION {{[args |-> a, defaults |-> d] :
                a \in {q \in [1..n -> ArgNames] : IsInjective(q)},
                d \in UNION {[1..k -> DefaultValues] : k \in 0..Min(n, MaxDefaults)}} :
           n \in 0..MaxArgs}

\* defaults paired with the first parameters instead of the last
iter_args_pair_front(args, defaults, idx) ==
    IF idx < Len(defaults)
    THEN <<args[idx + 1], PyStr(str(defaults[idx + 1]))>>
    ELSE <<args[idx + 1], PyNone>>

\* line 34-39: what one parameter yields; idx counts from 0
iter_args_pair(args, defaults, idx) ==
    LET arg == args[idx + 1]
        didx == Len(args) - idx
    IN  IF defaults # <<>> /\ Len(defaults) >= didx
        THEN <<arg, PyStr(str(defaults[Len(defaults) - didx + 1]))>>
        ELSE <<arg, PyNone>>

RECURSIVE iter_args_loop(_, _, _)
iter_args_loop(args, defaults, idx) ==
    IF idx >= Len(args) THEN <<>>
    ELSE IF args[idx + 1] \in ReservedArgs
         THEN iter_args_loop(args, defaults, idx + 1)
         ELSE <<iter_args_pair(args, defaults, idx)>>
              \o iter_args_loop(args, defaults, idx + 1)

iter_args(method) == iter_args_loop(method.args, method.defaults, 0)

\* str.rstrip(chars): drop every trailing character that is one of chars
RECURSIVE rstrip(_, _)
rstrip(s, chars) ==
    IF s # "" /\ \E i \in 1..Len(chars) : SubSeq(chars, i, i) = SubSeq(s, Len(s), Len(s))
    THEN rstrip(SubSeq(s, 1, Len(s) - 1), chars)
    ELSE s

\* str.replace(old, new): every non-overlapping occurrence, left to right
RECURSIVE replace(_, _, _)
replace(s, old, new) ==
    IF Len(s) < Len(old) THEN s
    ELSE IF SubSeq(s, 1, Len(old)) = old
         THEN new \o replace(SubSeq(s, Len(old) + 1, Len(s)), old, new)
         ELSE SubSeq(s, 1, 1) \o replace(SubSeq(s, 2, Len(s)), old, new)

\* line 46-51: what one (argn, argdef) pair appends to spec
signature_piece(argn, argdef) ==
    argn \o (IF Truthy(argdef) THEN "=" \o argdef.v ELSE "") \o ", "

RECURSIVE signature_loop(_)
signature_loop(pairs) ==
    IF pairs = <<>> THEN ""
    ELSE signature_piece(Head(pairs)[1], Head(pairs)[2]) \o signature_loop(Tail(pairs))

\* line 53
signature_trim(spec) == rstrip(spec, ", ")

\* line 55-56, parse_optional being always True for a property
signature_optional(spec) == replace(spec, "=None", "=<optional>")

signature(method) ==
    signature_optional(signature_trim(signature_loop(iter_args(method))))

IterArgs ==
    /\ op = "idle"
    /\ \E m \in ArgSpecs :
        /\ op' = "iter_args"
        /\ input' = m
        /\ ret' = Return(iter_args(m))

Signature ==
    /\ op = "idle"
    /\ \E m \in ArgSpecs :
        /\ op' = "signature"
        /\ input' = m
        /\ ret' = Return(PyStr(signature(m)))


(***************************************************************************)
(* HandlerDocumentation.get_fields                                         *)
(***************************************************************************)
MaxModelFields == 2
MaxFields == 2

FieldNames == {"id", "title", "body"}

\* a field of model._meta.fields
DbField(n) ==
    [name |-> n,
     type |-> CASE n = "id" -> "AutoField"
                [] n = "title" -> "CharField"
                [] OTHER -> "TextField"]

\* getattr(handler, 'model', None): no model, or a model class with its fields
Models ==
    {PyNone}
    \cup UNION {{[t |-> "model", fields |-> [i \in 1..n |-> DbField(q[i])]] :
                    q \in {r \in [1..n -> FieldNames] : IsInjective(r)}} :
                n \in 0..MaxModelFields}

\* getattr(handler, 'fields', None): no such attribute, or a tuple of names
ExplicitFields ==
    {PyNone}
    \cup UNION {{[t |-> "tuple", v |-> q] : q \in [1..n -> FieldNames]} :
                n \in 0..MaxFields}

FieldHandlers == {[model |-> m, fields |-> f] : m \in Models, f \in ExplicitFields}

\* piston.utils.parse_dbfield: the display record of a model field
parse_dbfield(f) == [kind |-> "dbfield", name |-> f.name, type |-> f.type]

get_model(handler) == handler.model

Range(q) == {q[i] : i \in 1..Len(q)}

\* [parse_dbfield(f) for f in fs]
parse_all(fs) == [i \in 1..Len(fs) |-> parse_dbfield(fs[i])]

\* line 122-123: the names the model filter tests against
get_fields_names(model, fields) ==
    IF Truthy(model) /\ ~Truthy(fields)
    THEN [t |-> "list", v |-> [i \in 1..Len(model.fields) |-> model.fields[i].name]]
    ELSE fields

\* line 132: iterating over None raises
get_fields_wrappers(fields) ==
    IF fields.t = "NoneType" THEN Raise("TypeError")
    ELSE Return([i \in 1..Len(fields.v) |-> [name |-> fields.v[i]]])

get_fields(handler) ==
    LET model == get_model(handler)
        fields == get_fields_names(model, handler.fields)
    IN  IF Truthy(model)
        THEN Return(parse_all(SelectSeq(model.fields,
                                        LAMBDA f : f.name \in Range(fields.v))))
        ELSE get_fields_wrappers(fields)

GetFields ==
    /\ op = "idle"
    /\ \E h \in FieldHandlers :
        /\ op' = "get_fields"
        /\ input' = h
        /\ ret' = get_fields(h)


(***************************************************************************)
(* HandlerDocumentation.get_resource_uri_template                          *)
(***************************************************************************)
MaxPatterns == 2

Lit(x) == [lit |-> x]
Param(n) == [param |-> n]

\* A (result, params) grouping of the resolver's reverse_dict: a template
\* with %(name)s references, and the names it refers to.
ItemsAll == [result |-> <<Lit("/items/")>>, params |-> <<>>]
ItemsById ==
    [result |-> <<Lit("/items/"), Param("id"), Lit("/")>>, params |-> <<"id">>]
ItemsByIdSlug ==
    [result |-> <<Lit("/items/"), Param("id"), Lit("/"), Param("slug"), Lit("/")>>,
     params |-> <<"id", "slug">>]
ItemsBySlug ==
    [result |-> <<Lit("/by/"), Param("slug"), Lit("/")>>, params |-> <<"slug">>]

\* the possibilities of one registered pattern: its groupings, in order
Possibilities ==
    {<<ItemsAll>>, <<ItemsById>>, <<ItemsByIdSlug>>, <<ItemsBySlug>>,
     <<ItemsAll, ItemsById>>}

\* reverse_dict.getlist(view) for the one view with registered patterns
RoutingTables == UNION {[1..n -> Possibilities] : n \in 0..MaxPatterns}

RegisteredView == PyStr("api.views.item")
BrokenView == PyStr("api.broken.view")
Views == {RegisteredView, PyStr("api.views.other"), BrokenView}

PositionalArgs ==
    {[t |-> "list", v |-> <<>>], [t |-> "list", v |-> <<PyInt(1)>>],
     [t |-> "list", v |-> <<PyInt(1), PyInt(2)>>], PyInt(5)}

KeywordArgs ==
    {[t |-> "dict", v |-> <<>>],
     [t |-> "dict", v |-> [k \in {"id"} |-> PyNone]],
     [t |-> "dict", v |-> [k \in {"slug"} |-> PyStr("x")]],
     [t |-> "dict", v |-> [k \in {"id", "slug"} |-> PyInt(7)]],
     PyNone}

\* What the handler's resource_uri amounts to: no such attribute, a call
\* that raises, a value that cannot be iterated, or a sequence of components.
Locators ==
    {[t |-> "absent"], [t |-> "raises"], [t |-> "returns", value |-> PyInt(1)]}
    \cup {[t |-> "returns", value |-> [t |-> "tuple", v |-> c]] :
            c \in {<<>>}
                 \cup {<<v>> : v \in Views}
                 \cup {<<v, a>> : v \in Views, a \in PositionalArgs}
                 \cup {<<v, a, k>> : v \in Views, a \in PositionalArgs, k \in KeywordArgs}
                 \cup {<<RegisteredView, [t |-> "list", v |-> <<>>],
                         [t |-> "dict", v |-> <<>>], PyNone>>}}

ScriptPrefixes == {"/", "/app"}

\* the routing system the lookup runs against
Routings ==
    {[table |-> tb, script_prefix |-> sp, urlconf |-> u] :
        tb \in RoutingTables, sp \in ScriptPrefixes, u \in BOOLEAN}

\* template % mapping: a %(name)s reference takes mapping[name], and a
\* name the mapping lacks raises KeyError
RECURSIVE percent_format(_, _)
percent_format(template, mapping) ==
    IF template = <<>> THEN Return("")
    ELSE LET piece == Head(template)
             rest == percent_format(Tail(template), mapping)
         IN  IF "lit" \in DOMAIN piece
             THEN IF rest.kind = "raise" THEN rest
                  ELSE Return(piece.lit \o rest.value)
             ELSE IF piece.param \notin DOMAIN mapping THEN Raise("KeyError")
                  ELSE IF rest.kind = "raise" THEN rest
                  ELSE Return(mapping[piece.param] \o rest.value)

\* line 163-166
convert(template, params, routing) ==
    LET paths == percent_format(template, [n \in Range(params) |-> "{" \o n \o "}"])
    IN  IF paths.kind = "raise" THEN paths
        ELSE Return(PyStr(routing.script_prefix \o paths.value))

\* line 169: self.handler.resource_uri()
call_resource_uri(locator) ==
    CASE locator.t = "absent" -> Raise("AttributeError")
      [] locator.t = "raises" -> Raise("Exception")
      [] OTHER -> Return(locator.value)

\* line 171-174: components = [None, [], {}], overwritten position by position
fill_components(resource_uri) ==
    IF resource_uri.t # "tuple" THEN Raise("TypeError")
    ELSE IF Len(resource_uri.v) > 3 THEN Raise("IndexError")
    ELSE LET dflt == <<PyNone, [t |-> "list", v |-> <<>>], [t |-> "dict", v |-> <<>>]>>
         IN  Return([i \in 1..3 |->
                        IF i <= Len(resource_uri.v) THEN resource_uri.v[i] ELSE dflt[i]])

\* line 177: get_callable(lookup_view, True)
get_callable(lookup_view) ==
    IF lookup_view = BrokenView THEN Raise("ViewDoesNotExist") ELSE Return(lookup_view)

\* line 179: get_resolver(None).reverse_dict.getlist(lookup_view)
get_possibilities(lookup_view, routing) ==
    IF ~routing.urlconf THEN Raise("ImproperlyConfigured")
    ELSE IF lookup_view = RegisteredView THEN Return(routing.table)
    ELSE Return(<<>>)

\* the (result, params) groupings in the order the two loops visit them
RECURSIVE flatten(_)
flatten(possibilities) ==
    IF possibilities = <<>> THEN <<>>
    ELSE Head(possibilities) \o flatten(Tail(possibilities))

\* keyword arguments matched as a subset of the parameters
match_grouping_subset(args, kwargs, params) ==
    IF Truthy(args)
    THEN IF args.t \notin {"list", "tuple"} THEN Raise("TypeError")
         ELSE Return(Len(args.v) = Len(params))
    ELSE IF kwargs.t # "dict" THEN Raise("AttributeError")
         ELSE Return(DOMAIN kwargs.v \subseteq Range(params))

\* line 183-190: whether a grouping is the one to convert; len() of a value
\* that has no length and keys() of a value that is no dict raise
match_grouping(args, kwargs, params) ==
    IF Truthy(args)
    THEN IF args.t \notin {"list", "tuple"} THEN Raise("TypeError")
         ELSE Return(Len(args.v) = Len(params))
    ELSE IF kwargs.t # "dict" THEN Raise("AttributeError")
         ELSE Return(DOMAIN kwargs.v = Range(params))

RECURSIVE match_loop(_, _, _, _)
match_loop(groupings, args, kwargs, routing) ==
    IF groupings = <<>> THEN Return(PyNone)
    ELSE LET g == Head(groupings)
             m == match_grouping(args, kwargs, g.params)
         IN  IF m.kind = "raise" THEN m
             ELSE IF m.value THEN convert(g.result, g.params, routing)
             ELSE match_loop(Tail(groupings), args, kwargs, routing)

\* line 169-190: the body of the try
resource_uri_try(locator, routing) ==
    LET resource_uri == call_resource_uri(locator) IN
    IF resource_uri.kind = "raise" THEN resource_uri ELSE
    LET components == fill_components(resource_uri.value) IN
    IF components.kind = "raise" THEN components ELSE
    LET lookup_view == get_callable(components.value[1]) IN
    IF lookup_view.kind = "raise" THEN lookup_view ELSE
    LET possibilities == get_possibilities(lookup_view.value, routing) IN
    IF possibilities.kind = "raise" THEN possibilities ELSE
    match_loop(flatten(possibilities.value), components.value[2],
               components.value[3], routing)

\* an except clause that names the locator's missing attribute only
resource_uri_except_attribute(outcome) ==
    IF outcome.kind = "raise" /\ outcome.exc = "AttributeError"
    THEN Return(PyNone) ELSE outcome

\* line 191-192: the bare except
resource_uri_except(outcome) ==
    IF outcome.kind = "raise" THEN Return(PyNone) ELSE outcome

get_resource_uri_template(locator, routing) ==
    resource_uri_except(resource_uri_try(locator, routing))

GetResourceUriTemplate ==
    /\ op = "idle"
    /\ \E l \in Locators, r \in Routings :
        /\ op' = "get_resource_uri_template"
        /\ input' = [locator |-> l, routing |-> r]
        /\ ret' = get_resource_uri_template(l, r)


(***************************************************************************)
(* documentation_view                                                      *)
(***************************************************************************)
MaxHandlers == 3

TrackedNames ==
    {"FooHandler", "AnonymousFooHandler", "BarHandler", "AnonymousBarHandler"}
TrackedModules == {"blog.handlers", "shop.handlers"}

\* the handler classes HandlerMetaClass may have put in handler_tracker
TrackedHandlers ==
    {[name |-> n, module |-> m, type |-> "HandlerMetaClass"] :
        n \in TrackedNames, m \in TrackedModules}

\* handler_tracker: each class once, in the order the classes were defined
Trackers ==
    UNION {{q \in [1..n -> TrackedHandlers] : IsInjective(q)} : n \in 0..MaxHandlers}

\* the code point of a letter, as far as comparing letters goes
Ord(c) ==
    LET letters == "ABCDEFGHIJKLMNOPQRSTUVWXYZabcdefghijklmnopqrstuvwxyz"
    IN  CHOOSE i \in 1..Len(letters) : SubSeq(letters, i, i) = c

\* cmp(a, b) of two strings: -1, 0 or 1
RECURSIVE cmp(_, _)
cmp(a, b) ==
    IF a = "" /\ b = "" THEN 0
    ELSE IF a = "" THEN -1
    ELSE IF b = "" THEN 1
    ELSE IF Ord(Head(a)) < Ord(Head(b)) THEN -1
    ELSE IF Ord(Head(a)) > Ord(Head(b)) THEN 1
    ELSE cmp(Tail(a), Tail(b))

\* line 209-213
compare(doc1, doc2) ==
    LET name1 == replace(doc1.handler.name, "Anonymous", "")
        name2 == replace(doc2.handler.name, "Anonymous", "")
    IN  cmp(name1, name2)

\* list.sort(cmp) is stable: an element goes after those that compare equal
RECURSIVE sort_insert(_, _)
sort_insert(sorted, doc) ==
    IF sorted = <<>> THEN <<doc>>
    ELSE IF compare(doc, Head(sorted)) < 0 THEN <<doc>> \o sorted
    ELSE <<Head(sorted)>> \o sort_insert(Tail(sorted), doc)

RECURSIVE sort(_)
sort(docs) ==
    IF docs = <<>> THEN <<>>
    ELSE sort_insert(sort(SubSeq(docs, 1, Len(docs) - 1)), docs[Len(docs)])

\* line 204-207: a failure of generate_doc ends the view
RECURSIVE build_docs(_)
build_docs(handler_tracker) ==
    IF handler_tracker = <<>> THEN Return(<<>>)
    ELSE LET doc == generate_doc(Head(handler_tracker))
             rest == build_docs(Tail(handler_tracker))
         IN  IF doc.kind = "raise" THEN doc
             ELSE IF rest.kind = "raise" THEN rest
             ELSE Return(<<doc.value>> \o rest.value)

\* render_to_response(template, context, ...): what is handed to rendering
render_to_response(template, docs) == [template |-> template, docs |-> docs]

documentation_view(handler_tracker) ==
    LET docs == build_docs(handler_tracker)
    IN  IF docs.kind = "raise" THEN docs
        ELSE Return(render_to_response("documentation.html", sort(docs.value)))

DocumentationView ==
    /\ op = "idle"
    /\ \E handler_tracker \in Trackers :
        /\ op' = "documentation_view"
        /\ input' = handler_tracker
        /\ ret' = documentation_view(handler_tracker)

Init ==
    /\ op = "idle"
    /\ input = PyNone
    /\ ret = Return(PyNone)

Next ==
    \/ GenerateDoc
    \/ GetMethods
    \/ IterArgs
    \/ Signature
    \/ GetFields
    \/ GetResourceUriTemplate
    \/ DocumentationView

Spec == Init /\ [][Next]_vars

(***************************************************************************)
(* Claims about generate_doc and get_methods                               *)
(***************************************************************************)
\* whether a value is a handler class: its class is HandlerMetaClass or a
\* metaclass derived from it
IsHandlerClass(x) == isinstance(x.type, "HandlerMetaClass")

\* C1: generate_doc raises ValueError whenever its argument is not a handler
\* class (an already-built HandlerDocumentation included), and returns a
\* HandlerDocumentation wrapping the argument only for a handler class.
C1_RejectsAllButHandlerClasses ==
    op = "generate_doc" =>
        IF IsHandlerClass(input)
        THEN ret = Return(HandlerDocumentation(input))
        ELSE ret = Raise("ValueError")

C2_Names(entries) == [i \in 1..Len(entries) |-> entries[i].method.name]

C2_Stale(h, m) == getattr_method(h, m).module # h.module

C2_Yielded(h, include_default, available_only, m) ==
    /\ getattr_method(h, m) # PyNone
    /\ available_only => get_http_name(m) \in h.allowed_methods
    /\ ~C2_Stale(h, m) \/ include_default

\* C2: for a handler that is not anonymous, get_methods yields exactly one
\* entry for each canonical operation that is implemented, passes the
\* whitelist when available_only is set, and is non-stale or asked for by
\* include_default; the entries come in the order read, create, update,
\* delete, and each wraps the handler's implementation of that operation.
C2_NamedHandlerMethods ==
    (op = "get_methods" /\ ~input.handler.is_anonymous) =>
        LET h == input.handler
            entries == ret.value
        IN  /\ ret.kind = "return"
            /\ C2_Names(entries) =
                 SelectSeq(methods, LAMBDA m :
                     C2_Yielded(h, input.include_default, input.available_only, m))
            /\ \A i \in 1..Len(entries) :
                 entries[i].method = getattr_method(h, entries[i].method.name)

\* a handler implementing all four operations itself, whitelisting GET only,
\* asked for its available operations: read alone is listed
C2_Witness ==
    /\ op = "get_methods"
    /\ ~input.handler.is_anonymous
    /\ input.available_only
    /\ input.handler.allowed_methods = {"GET"}
    /\ \A m \in Range(methods) :
         /\ getattr_method(input.handler, m) # PyNone
         /\ ~getattr_method(input.handler, m).inherited
    /\ C2_Names(ret.value) = <<"read">>

C3_Yielded(h, available_only, m) ==
    /\ getattr_method(h, m) # PyNone
    /\ available_only => get_http_name(m) \in h.allowed_methods
    /\ ~C2_Stale(h, m) \/ (m = "read" /\ "GET" \in h.allowed_methods)

\* C3: for an anonymous handler, get_methods yields an implemented operation
\* that passed the whitelist filter exactly when it is non-stale, or it is
\* read and GET is whitelisted; include_default plays no part.
C3_AnonymousHandlerMethods ==
    (op = "get_methods" /\ input.handler.is_anonymous) =>
        LET h == input.handler
            entries == ret.value
        IN  /\ ret.kind = "return"
            /\ C2_Names(entries) =
                 SelectSeq(methods, LAMBDA m : C3_Yielded(h, input.available_only, m))
            /\ \A i \in 1..Len(entries) :
                 entries[i].method = getattr_method(h, entries[i].method.name)

\* an anonymous handler whose read and create both come from piston's base
\* handler, with GET and POST whitelisted and include_default set: the
\* stale read is listed, the stale create is not
C3_Witness ==
    /\ op = "get_methods"
    /\ input.handler.is_anonymous
    /\ input.include_default
    /\ {"GET", "POST"} \subseteq input.handler.allowed_methods
    /\ input.handler.read # PyNone
    /\ input.handler.read.module = "piston.handler"
    /\ input.handler.create # PyNone
    /\ input.handler.create.module = "piston.handler"
    /\ Len(ret.value) >= 1
    /\ ret.value[1].method.name = "read"
    /\ ret.value[1].stale
    /\ "create" \notin Range(C2_Names(ret.value))

C4_Render(pair) ==
    IF pair[2].t = "NoneType" THEN pair[1]
    ELSE pair[1] \o "=" \o (IF pair[2].v = "None" THEN "<optional>" ELSE pair[2].v)

RECURSIVE C4_Join(_)
C4_Join(pairs) ==
    IF pairs = <<>> THEN ""
    ELSE IF Len(pairs) = 1 THEN C4_Render(pairs[1])
    ELSE C4_Render(pairs[1]) \o ", " \o C4_Join(Tail(pairs))

\* C4: the signature is the iter_args pairs joined by ", ", a pair without
\* default shown as "name" and a pair with default as "name=default", the
\* default replaced by "<optional>" exactly when it reads "None" and shown
\* unchanged otherwise.
C4_SignatureRendering ==
    op = "signature" => ret = Return(PyStr(C4_Join(iter_args(input))))

C5_Expected(m) ==
    LET P == m.args
        D == m.defaults
        first == Len(P) - Len(D)
        kept == SelectSeq([i \in 1..Len(P) |-> i],
                          LAMBDA i : P[i] \notin {"self", "request", "form"})
    IN  [j \in 1..Len(kept) |->
            <<P[kept[j]],
              IF kept[j] > first THEN PyStr(str(D[kept[j] - first])) ELSE PyNone>>]

\* C5: iter_args yields, in declaration order, one pair for each parameter
\* not named self, request or form; the declared defaults belong to the last
\* parameters of the full list, a parameter among them is paired with the
\* string form of its default and any other with None.
C5_IterArgsPairs ==
    op = "iter_args" => ret = Return(C5_Expected(input))

\* (id, form=0, slug=None): form takes the first default and is left out,
\* id has none, slug is paired with the string "None"
C5_Witness ==
    /\ op = "iter_args"
    /\ input.args = <<"id", "form", "slug">>
    /\ input.defaults = <<PyInt(0), PyNone>>
    /\ ret.value = << <<"id", PyNone>>, <<"slug", PyStr("None")>> >>

(***************************************************************************)
(* Claims about get_fields                                                 *)
(***************************************************************************)
\* C7: get_fields returns without error; with a model and an explicit list,
\* the parsed descriptors of the model fields named in the list; with a
\* model and no explicit list, those of all model fields; without a model,
\* one bare name wrapper per listed name, none when no list is declared.
C7_GetFieldsByCase ==
    op = "get_fields" =>
        LET model == input.model
            fields == input.fields
            explicit == IF fields.t = "NoneType" THEN <<>> ELSE fields.v
        IN  /\ ret.kind = "return"
            /\ (model # PyNone /\ explicit # <<>>) =>
                 ret.value =
                     LET named == SelectSeq(model.fields,
                                            LAMBDA f : f.name \in Range(explicit))
                     IN  [i \in 1..Len(named) |-> parse_dbfield(named[i])]
            /\ (model # PyNone /\ explicit = <<>>) =>
                 ret.value = [i \in 1..Len(model.fields) |->
                                 parse_dbfield(model.fields[i])]
            /\ model = PyNone =>
                 ret.value = [i \in 1..Len(explicit) |-> [name |-> explicit[i]]]

(***************************************************************************)
(* Claims about get_resource_uri_template                                  *)
(***************************************************************************)
\* the components of a locator's value, the missing ones defaulted
C9_Component(locator, i) ==
    IF i <= Len(locator.value.v) THEN locator.value.v[i]
    ELSE <<PyNone, [t |-> "list", v |-> <<>>], [t |-> "dict", v |-> <<>>]>>[i]

\* a locator that succeeds with well-formed components, on a routing system
\* that answers
C9_Succeeds(locator, routing) ==
    /\ locator.t = "returns"
    /\ locator.value.t = "tuple"
    /\ Len(locator.value.v) <= 3
    /\ C9_Component(locator, 1) # BrokenView
    /\ C9_Component(locator, 2).t = "list"
    /\ C9_Component(locator, 2).v = <<>> => C9_Component(locator, 3).t = "dict"
    /\ routing.urlconf

C9_Groupings(locator, routing) ==
    IF C9_Component(locator, 1) = RegisteredView THEN flatten(routing.table) ELSE <<>>

C9_Matches(locator, g) ==
    IF C9_Component(locator, 2).v # <<>>
    THEN Len(C9_Component(locator, 2).v) = Len(g.params)
    ELSE DOMAIN C9_Component(locator, 3).v = Range(g.params)

RECURSIVE C9_Placeholders(_)
C9_Placeholders(template) ==
    IF template = <<>> THEN ""
    ELSE (IF "lit" \in DOMAIN Head(template) THEN Head(template).lit
          ELSE "{" \o Head(template).param \o "}")
         \o C9_Placeholders(Tail(template))

\* C6: get_resource_uri_template never raises, and returns None when the
\* handler has no locator, the locator raises or returns a malformed value
\* or more than three components, view resolution or the routing system
\* fails, or no registered pattern matches.
C6_NeverRaises ==
    op = "get_resource_uri_template" =>
        LET l == input.locator
            r == input.routing
        IN  /\ ret.kind = "return"
            /\ (\/ ~C9_Succeeds(l, r)
                \/ \A k \in 1..Len(C9_Groupings(l, r)) :
                       ~C9_Matches(l, C9_Groupings(l, r)[k]))
               => ret = Return(PyNone)

\* every way of failing was met with None: a locator returning four
\* components, here
C6_Witness ==
    /\ op = "get_resource_uri_template"
    /\ input.locator.t = "returns"
    /\ input.locator.value.t = "tuple"
    /\ Len(input.locator.value.v) = 4
    /\ input.routing.table # <<>>
    /\ ret = Return(PyNone)

\* C9: when the locator succeeds, the result is built from the first
\* grouping in routing-table order that matches (by count against the
\* positional arguments when there are any, else by name set against the
\* keyword arguments), missing components defaulting to no view, no
\* positional and no keyword arguments; it is the script prefix followed by
\* the template with every parameter replaced by {name}.
C9_FirstMatchTemplate ==
    (op = "get_resource_uri_template" /\ C9_Succeeds(input.locator, input.routing)) =>
        LET l == input.locator
            gs == C9_Groupings(l, input.routing)
            hits == {k \in 1..Len(gs) : C9_Matches(l, gs[k])}
        IN  IF hits = {} THEN ret = Return(PyNone)
            ELSE LET k == CHOOSE n \in hits : \A o \in hits : n <= o
                 IN  ret = Return(PyStr(input.routing.script_prefix
                                        \o C9_Placeholders(gs[k].result)))

\* the locator ("api.views.item", [], {"id": None}) against a table whose
\* first pattern does not match and whose second is /items/%(id)s/
C9_Witness ==
    /\ op = "get_resource_uri_template"
    /\ input.locator.t = "returns"
    /\ input.locator.value =
         [t |-> "tuple",
          v |-> <<RegisteredView, [t |-> "list", v |-> <<>>],
                  [t |-> "dict", v |-> [k \in {"id"} |-> PyNone]]>>]
    /\ input.routing.table = << <<ItemsBySlug>>, <<ItemsAll, ItemsById>> >>
    /\ input.routing.script_prefix = "/app"
    /\ ret = Return(PyStr("/app/items/{id}/"))

(***************************************************************************)
(* Claims about documentation_view                                         *)
(***************************************************************************)
C8_Key(doc) == replace(doc.handler.name, "Anonymous", "")

\* C8: the list handed to rendering holds one HandlerDocumentation per
\* registered handler, in non-decreasing order of the name without
\* "Anonymous", so that a handler named N and one named "Anonymous"+N are
\* next to each other.
C8_TwinsAdjacent ==
    op = "documentation_view" =>
        /\ ret.kind = "return"
        /\ LET docs == ret.value.docs IN
           /\ Len(docs) = Len(input)
           /\ \A h \in Range(input) :
                Cardinality({i \in 1..Len(docs) : docs[i] = HandlerDocumentation(h)}) = 1
           /\ \A i \in 1..(Len(docs) - 1) : cmp(C8_Key(docs[i]), C8_Key(docs[i + 1])) <= 0
           /\ \A i, j \in 1..Len(docs) :
                docs[j].handler.name = "Anonymous" \o docs[i].handler.name
                    => (i - j = 1 \/ j - i = 1)

====
